---- MODULE Spec2Model ----
(***************************************************************************)
(* Model of the desktop launcher's process supervisor and settings store  *)
(* (src/desktop/src-tauri/src/main.rs).                                    *)
(*                                                                         *)
(* The supervisor part models NodeProcess(Mutex<Option<Child>>) and the    *)
(* three commands get_node_status, start_node and stop_node, each as the   *)
(* sequence of steps a calling task takes between acquiring the mutex and  *)
(* returning.  The operating system's processes are modelled by `procs`.   *)
(*                                                                         *)
(* The settings part models get_settings, save_settings and load_settings  *)
(* over the configuration directory and the file settings.json, whose      *)
(* content is a JSON document as serde_json writes and reads it.           *)
(*                                                                         *)
(* The two parts share no state.  Spec runs the supervisor commands,       *)
(* SpecStarts runs concurrent start_node calls alone and SpecSettings runs *)
(* the settings commands.                                                  *)
(***************************************************************************)
EXTENDS Integers, Sequences, FiniteSets, TLC

\* ---------------------------------------------------------------- bounds

\* Number of tasks that may call the commands concurrently.
NumCallers == 2

\* Number of children the operating system lets the supervisor spawn.
MaxSpawns == 2

Callers == 1..NumCallers

\* Values of the orchestrator_url argument of start_node.
Urls == {"http://orch:8080", "http://x:9"}

NoUrl == ""

\* ----------------------------------------------------------------- state

VARIABLES
    slot,        \* NodeProcess.0: <<>> is None, <<pid>> is Some(child)
    lock,        \* the mutex: 0 when free, else the caller holding the guard
    procs,       \* OS processes spawned so far: procs[pid] is its state
    pc,          \* pc[c]: where caller c is in the command it runs
    child,       \* the local `child` of caller c (start_node, stop_node)
    arg,         \* the orchestrator_url argument of caller c's start_node
    path,        \* the local `path` of caller c in start_node
    probe,       \* what caller c's locator found: current_exe() and exists()
    result,      \* the value the last command of caller c returned
    lastCall,    \* the command caller c ran last
    lastSuccess, \* history: the command (start/stop) that returned Ok last
    killCalls,   \* history: pids on which Child::kill was called
    reapedBy,    \* history: pids on which Child::wait returned
    statusFresh  \* history: get_node_status returned and no step of
                 \* start_node or stop_node and no process exit followed

nodeVars == <<slot, lock, procs, pc, child, arg, path, probe, result, lastCall,
              lastSuccess, killCalls, reapedBy, statusFresh>>

\* The settings store: the per-user configuration directory and the file
\* settings.json in it, and the one settings command in progress.
VARIABLES
    configDir,      \* ProjectDirs::from("com", "rhizos", "cloud") is Some
    fsOk,           \* the file system lets directories and files be written
    dirExists,      \* the configuration directory exists
    file,           \* settings.json: <<>> when absent, else <<content>>
    readable,       \* the permissions of settings.json allow access
    spc,            \* the settings command in progress: idle, get or save
    request,        \* the `settings` argument of the last save_settings request
    settingsResult, \* the value the last settings command returned
    lastSaved,      \* history: <<record>> of the last save that returned Ok
    intact,         \* history: the file is as the last Ok save left it
    replaced,       \* history: the last Ok save replaced another record
    stale,          \* history: the environment changed after the last command
    offered         \* history: the records passed to save_settings so far

settingsVars == <<configDir, fsOk, dirExists, file, readable, spc, request,
                  settingsResult, lastSaved, intact, replaced, stale,
                  offered>>

vars == <<nodeVars, settingsVars>>

\* -------------------------------------------------------------- results

NoResult == [kind |-> "none"]

Ok(status) == [kind |-> "ok", status |-> status]

Err(msg) == [kind |-> "err", msg |-> msg]

\* struct NodeStatus { running, pid }: pid is <<>> (None) or <<pid>>.
NodeStatus(running, pid) == [running |-> running, pid |-> pid]

AlreadyRunning == "Node is already running"

BinaryNotFound == "Could not find node-agent binary"

SpawnFailed == "Failed to start node"

StopFailed == "Failed to stop node"

\* -------------------------------------------------------------- helpers

\* Option<T> as a sequence of length at most one.
IsSome(o) == o # <<>>

NoPath == <<>>

\* What the locator found in the environment: whether current_exe()
\* resolved and whether the binary exists next to the launcher.
Probe(exeResolvable, adjacentExists) ==
    [exe |-> exeResolvable, adjacent |-> adjacentExists]

NoProbe == [exe |-> FALSE, adjacent |-> FALSE, none |-> TRUE]

AdjacentPath == "<exe dir>/rhizos-node"

DevelopmentPath == "../node-agent/target/release/rhizos-node"

\* Mutant of BinaryPath: the adjacent path is taken without .filter(exists).
BinaryPathNoFilter(exeResolvable, adjacentExists) ==
    IF exeResolvable THEN <<AdjacentPath>> ELSE <<DevelopmentPath>>

\* Mutant of BinaryPath: the development path is tried only when the
\* launcher's directory is known.
BinaryPathNoFallback(exeResolvable, adjacentExists) ==
    IF ~exeResolvable THEN <<>>
    ELSE IF adjacentExists THEN <<AdjacentPath>> ELSE <<DevelopmentPath>>

\* The binary_path expression: current_exe().ok().and_then(parent.join)
\* .filter(exists).or_else(|| Some(development path)).
BinaryPath(exeResolvable, adjacentExists) ==
    LET joined == IF exeResolvable THEN <<AdjacentPath>> ELSE <<>>
        filtered == IF IsSome(joined) /\ adjacentExists THEN joined ELSE <<>>
    IN  IF IsSome(filtered) THEN filtered ELSE <<DevelopmentPath>>

\* A process lives until it exits; a signalled one has not exited yet.
Alive == {p \in DOMAIN procs : procs[p] \in {"alive", "killed"}}

\* The mutex guard is dropped when the command returns.
Return(c, r) ==
    /\ result' = [result EXCEPT ![c] = r]
    /\ lock' = 0
    /\ pc' = [pc EXCEPT ![c] = "idle"]

\* ------------------------------------------------------------- commands

\* A task invokes one of the three commands (generate_handler!).
Invoke(c, cmd, url) ==
    /\ pc[c] = "idle"
    /\ pc' = [pc EXCEPT ![c] = cmd \o "_lock"]
    /\ lastCall' = [lastCall EXCEPT ![c] = cmd]
    /\ result' = [result EXCEPT ![c] = NoResult]
    /\ arg' = [arg EXCEPT ![c] = url]
    /\ UNCHANGED <<slot, lock, procs, child, path, probe, lastSuccess, killCalls, reapedBy>>
    /\ UNCHANGED statusFresh
    /\ UNCHANGED settingsVars

\* Mutant of Lock: the slot is entered without waiting for the mutex.
LockNoExclusion(c, cmd, next) ==
    /\ pc[c] = cmd \o "_lock"
    /\ lock' = c
    /\ pc' = [pc EXCEPT ![c] = next]
    /\ UNCHANGED <<slot, procs, child, arg, path, probe, result, lastCall,
                   lastSuccess, killCalls, reapedBy>>
    /\ UNCHANGED statusFresh
    /\ UNCHANGED settingsVars

\* node.0.lock().unwrap() of any of the commands.
Lock(c, cmd, next) ==
    /\ pc[c] = cmd \o "_lock"
    /\ lock = 0
    /\ lock' = c
    /\ pc' = [pc EXCEPT ![c] = next]
    /\ UNCHANGED <<slot, procs, child, arg, path, probe, result, lastCall,
                   lastSuccess, killCalls, reapedBy>>
    /\ UNCHANGED statusFresh
    /\ UNCHANGED settingsVars

\* Mutant of StatusOf: the child is asked whether it has exited, and a dead
\* child is reported as not running.
StatusOfLiveness(s) ==
    IF IsSome(s) /\ procs[s[1]] \in {"alive", "killed"}
      THEN NodeStatus(TRUE, s)
      ELSE NodeStatus(FALSE, <<>>)

\* Mutant of StatusOf: the pid is left out of the status.
StatusOfNoPid(s) == NodeStatus(IsSome(s), <<>>)

\* get_node_status: the match on the guarded slot.
StatusOf(s) ==
    IF IsSome(s) THEN NodeStatus(TRUE, s) ELSE NodeStatus(FALSE, <<>>)

GetNodeStatusLock(c) == Lock(c, "status", "status_read")

\* Mutant of GetNodeStatusRead: a child found to have exited is reaped and
\* its handle removed from the slot before the status is reported.
GetNodeStatusReadReconcile(c) ==
    /\ pc[c] = "status_read"
    /\ IF IsSome(slot) /\ procs[slot[1]] = "exited"
         THEN /\ Return(c, NodeStatus(FALSE, <<>>))
              /\ slot' = <<>>
              /\ procs' = [procs EXCEPT ![slot[1]] = "reaped"]
              /\ reapedBy' = reapedBy \cup {slot[1]}
         ELSE /\ Return(c, StatusOf(slot))
              /\ UNCHANGED <<slot, procs, reapedBy>>
    /\ UNCHANGED <<child, arg, path, probe, lastCall, lastSuccess, killCalls>>
    /\ statusFresh' = TRUE
    /\ UNCHANGED settingsVars

GetNodeStatusRead(c) ==
    /\ pc[c] = "status_read"
    /\ Return(c, StatusOf(slot))
    /\ UNCHANGED <<slot, procs, child, arg, path, probe, lastCall, lastSuccess,
                   killCalls, reapedBy>>
    /\ statusFresh' = TRUE
    /\ UNCHANGED settingsVars

\* start_node
StartNodeLock(c) == Lock(c, "start", "start_check")

\* Mutant of StartNodeCheck: the is_some() test is missing.
StartNodeCheckNoGuard(c) ==
    /\ pc[c] = "start_check"
    /\ pc' = [pc EXCEPT ![c] = "start_locate"]
    /\ UNCHANGED <<slot, lock, procs, child, arg, path, probe, result, lastCall,
                   lastSuccess, killCalls, reapedBy>>
    /\ statusFresh' = FALSE
    /\ UNCHANGED settingsVars

\* Mutant of StartNodeCheck: the guard is dropped after the check, so that
\* the mutex is not held while the binary is located and spawned.
StartNodeCheckReleasesLock(c) ==
    /\ pc[c] = "start_check"
    /\ IF IsSome(slot)
         THEN /\ Return(c, Err(AlreadyRunning))
              /\ arg' = [arg EXCEPT ![c] = NoUrl]
         ELSE /\ pc' = [pc EXCEPT ![c] = "start_locate"]
              /\ lock' = 0
              /\ UNCHANGED <<result, arg>>
    /\ UNCHANGED <<slot, procs, child, path, probe, lastCall, lastSuccess,
                   killCalls, reapedBy>>
    /\ statusFresh' = FALSE
    /\ UNCHANGED settingsVars

\* if guard.is_some() { return Err("Node is already running") }
StartNodeCheck(c) ==
    /\ pc[c] = "start_check"
    /\ IF IsSome(slot)
         THEN /\ Return(c, Err(AlreadyRunning))
              /\ arg' = [arg EXCEPT ![c] = NoUrl]
         ELSE /\ pc' = [pc EXCEPT ![c] = "start_locate"]
              /\ UNCHANGED <<lock, result, arg>>
    /\ UNCHANGED <<slot, procs, child, path, probe, lastCall, lastSuccess,
                   killCalls, reapedBy>>
    /\ statusFresh' = FALSE
    /\ UNCHANGED settingsVars

\* let binary_path = ...; let path = binary_path.ok_or(...)?;
StartNodeLocate(c) ==
    /\ pc[c] = "start_locate"
    /\ \E exeResolvable \in BOOLEAN, adjacentExists \in BOOLEAN :
         LET binary_path == BinaryPath(exeResolvable, adjacentExists)
         IN  IF IsSome(binary_path)
               THEN /\ path' = [path EXCEPT ![c] = binary_path]
                    /\ probe' = [probe EXCEPT ![c] =
                                   Probe(exeResolvable, adjacentExists)]
                    /\ pc' = [pc EXCEPT ![c] = "start_spawn"]
                    /\ UNCHANGED <<lock, result, arg>>
               ELSE /\ Return(c, Err(BinaryNotFound))
                    /\ arg' = [arg EXCEPT ![c] = NoUrl]
                    /\ probe' = [probe EXCEPT ![c] =
                                   Probe(exeResolvable, adjacentExists)]
                    /\ UNCHANGED path
    /\ UNCHANGED <<slot, procs, child, lastCall, lastSuccess,
                   killCalls, reapedBy>>
    /\ statusFresh' = FALSE
    /\ UNCHANGED settingsVars

\* Command::new(&path).args(...).spawn().map_err(...)?
StartNodeSpawn(c) ==
    /\ pc[c] = "start_spawn"
    /\ \/ /\ Len(procs) < MaxSpawns
          /\ procs' = Append(procs, "alive")
          /\ child' = [child EXCEPT ![c] = <<Len(procs) + 1>>]
          /\ pc' = [pc EXCEPT ![c] = "start_store"]
          /\ UNCHANGED <<lock, result>>
       \/ /\ Return(c, Err(SpawnFailed))
          /\ UNCHANGED <<procs, child>>
    /\ path' = [path EXCEPT ![c] = NoPath]
    /\ probe' = [probe EXCEPT ![c] = NoProbe]
    /\ arg' = [arg EXCEPT ![c] = NoUrl]
    /\ UNCHANGED <<slot, lastCall, lastSuccess, killCalls, reapedBy>>
    /\ statusFresh' = FALSE
    /\ UNCHANGED settingsVars

\* let pid = child.id(); *guard = Some(child); Ok(NodeStatus{true, Some(pid)})
StartNodeStore(c) ==
    /\ pc[c] = "start_store"
    /\ slot' = child[c]
    /\ child' = [child EXCEPT ![c] = <<>>]
    /\ Return(c, Ok(NodeStatus(TRUE, child[c])))
    /\ lastSuccess' = "start"
    /\ UNCHANGED <<procs, arg, path, probe, lastCall, killCalls, reapedBy>>
    /\ statusFresh' = FALSE
    /\ UNCHANGED settingsVars

\* stop_node
StopNodeLock(c) == Lock(c, "stop", "stop_take")

\* Mutant of StopNodeTake: stopping with an empty slot is an error.
StopNodeTakeStrict(c) ==
    /\ pc[c] = "stop_take"
    /\ child' = [child EXCEPT ![c] = slot]
    /\ slot' = <<>>
    /\ IF IsSome(slot)
         THEN /\ pc' = [pc EXCEPT ![c] = "stop_kill"]
              /\ UNCHANGED <<lock, result>>
         ELSE Return(c, Err("Node is not running"))
    /\ UNCHANGED <<procs, arg, path, probe, lastCall, lastSuccess, killCalls, reapedBy>>
    /\ statusFresh' = FALSE
    /\ UNCHANGED settingsVars

\* if let Some(mut child) = guard.take() { ... }
StopNodeTake(c) ==
    /\ pc[c] = "stop_take"
    /\ child' = [child EXCEPT ![c] = slot]
    /\ slot' = <<>>
    /\ pc' = [pc EXCEPT ![c] = IF IsSome(slot) THEN "stop_kill" ELSE "stop_ret"]
    /\ UNCHANGED <<lock, procs, arg, path, probe, result, lastCall, lastSuccess,
                   killCalls, reapedBy>>
    /\ statusFresh' = FALSE
    /\ UNCHANGED settingsVars

\* Mutant of StopNodeKill: the result of kill is ignored and the child is
\* waited for whether or not it was signalled.
StopNodeKillIgnoreError(c) ==
    /\ pc[c] = "stop_kill"
    /\ LET pid == child[c][1]
       IN  /\ killCalls' = killCalls \cup {pid}
           /\ \/ procs' = [procs EXCEPT ![pid] =
                             IF @ = "alive" THEN "killed" ELSE @]
              \/ UNCHANGED procs
    /\ pc' = [pc EXCEPT ![c] = "stop_wait"]
    /\ UNCHANGED <<slot, lock, result, child, arg, path, probe, lastCall,
                   lastSuccess, reapedBy>>
    /\ statusFresh' = FALSE
    /\ UNCHANGED settingsVars

\* Mutant of StopNodeKill: when kill fails the handle is put back in the
\* slot before the error is returned.
StopNodeKillRestore(c) ==
    /\ pc[c] = "stop_kill"
    /\ LET pid == child[c][1]
       IN  /\ killCalls' = killCalls \cup {pid}
           /\ \/ /\ procs' = [procs EXCEPT ![pid] =
                                IF @ = "alive" THEN "killed" ELSE @]
                 /\ pc' = [pc EXCEPT ![c] = "stop_wait"]
                 /\ UNCHANGED <<lock, result, child, slot>>
              \/ /\ Return(c, Err(StopFailed))
                 /\ slot' = child[c]
                 /\ child' = [child EXCEPT ![c] = <<>>]
                 /\ UNCHANGED procs
    /\ UNCHANGED <<arg, path, probe, lastCall, lastSuccess, reapedBy>>
    /\ statusFresh' = FALSE
    /\ UNCHANGED settingsVars

\* child.kill().map_err(...)?  On failure the function returns and the
\* local child is dropped, which neither kills nor reaps the process.
StopNodeKill(c) ==
    /\ pc[c] = "stop_kill"
    /\ LET pid == child[c][1]
       IN  /\ killCalls' = killCalls \cup {pid}
           /\ \/ /\ procs' = [procs EXCEPT ![pid] =
                                IF @ = "alive" THEN "killed" ELSE @]
                 /\ pc' = [pc EXCEPT ![c] = "stop_wait"]
                 /\ UNCHANGED <<lock, result, child>>
              \/ /\ Return(c, Err(StopFailed))
                 /\ child' = [child EXCEPT ![c] = <<>>]
                 /\ UNCHANGED procs
    /\ UNCHANGED <<slot, arg, path, probe, lastCall, lastSuccess, reapedBy>>
    /\ statusFresh' = FALSE
    /\ UNCHANGED settingsVars

\* child.wait().ok(): blocks until the process has exited, then reaps it.
StopNodeWait(c) ==
    /\ pc[c] = "stop_wait"
    /\ LET pid == child[c][1]
       IN  /\ procs[pid] = "exited"
           /\ procs' = [procs EXCEPT ![pid] = "reaped"]
           /\ reapedBy' = reapedBy \cup {pid}
    /\ child' = [child EXCEPT ![c] = <<>>]
    /\ pc' = [pc EXCEPT ![c] = "stop_ret"]
    /\ UNCHANGED <<slot, lock, arg, path, probe, result, lastCall, lastSuccess, killCalls>>
    /\ statusFresh' = FALSE
    /\ UNCHANGED settingsVars

\* Ok(NodeStatus { running: false, pid: None })
StopNodeReturn(c) ==
    /\ pc[c] = "stop_ret"
    /\ Return(c, Ok(NodeStatus(FALSE, <<>>)))
    /\ lastSuccess' = "stop"
    /\ UNCHANGED <<slot, procs, child, arg, path, probe, lastCall, killCalls, reapedBy>>
    /\ statusFresh' = FALSE
    /\ UNCHANGED settingsVars

\* ---------------------------------------------------------- environment

\* A child exits: on its own, or because the kill signal reached it.
ChildExit(pid) ==
    /\ procs[pid] \in {"alive", "killed"}
    /\ procs' = [procs EXCEPT ![pid] = "exited"]
    /\ UNCHANGED <<slot, lock, pc, child, arg, path, probe, result, lastCall,
                   lastSuccess, killCalls, reapedBy>>
    /\ statusFresh' = FALSE
    /\ UNCHANGED settingsVars

\* ------------------------------------------------------ settings store

\* The fields of struct NodeSettings and of struct PricingConfig.
StringKeys == {"orchestrator_url", "wallet_address"}

BoolKeys == {"auto_start", "start_minimized"}

NumberKeys == {"max_concurrent_jobs", "max_memory_percent"}

SettingsKeys == StringKeys \cup BoolKeys \cup NumberKeys \cup {"pricing"}

PricingKeys == {"gpu_hour_cents", "cpu_core_hour_cents",
                "memory_gb_hour_cents", "minimum_cents"}

\* impl Default for NodeSettings
DefaultSettings ==
    [orchestrator_url |-> "http://localhost:8080",
     auto_start |-> FALSE,
     start_minimized |-> FALSE,
     wallet_address |-> "",
     max_concurrent_jobs |-> 4,
     max_memory_percent |-> 80,
     pricing |-> [gpu_hour_cents |-> 50,
                  cpu_core_hour_cents |-> 1,
                  memory_gb_hour_cents |-> 1,
                  minimum_cents |-> 1]]

\* A record that differs from the default one in every field, with the
\* boundary values max_concurrent_jobs = 0 and minimum_cents = 0.
BoundarySettings ==
    [orchestrator_url |-> "http://x:9",
     auto_start |-> TRUE,
     start_minimized |-> TRUE,
     wallet_address |-> "0xabc",
     max_concurrent_jobs |-> 0,
     max_memory_percent |-> 100,
     pricing |-> [gpu_hour_cents |-> 0,
                  cpu_core_hour_cents |-> 0,
                  memory_gb_hour_cents |-> 0,
                  minimum_cents |-> 0]]

\* The NodeSettings values the model saves.
SettingsSamples ==
    {DefaultSettings, BoundarySettings,
     [DefaultSettings EXCEPT !.orchestrator_url = "http://x:9"],
     [DefaultSettings EXCEPT !.max_concurrent_jobs = 0],
     [DefaultSettings EXCEPT !.pricing.minimum_cents = 0]}

\* JSON documents, as serde_json reads and writes them.  A number is an
\* integer literal; JBigNumber is an integer literal of 2^32 or more and
\* Malformed is text that is no JSON document (garbage, or a prefix of one).
JStr(x) == [t |-> "string", v |-> x]

JBool(x) == [t |-> "bool", v |-> x]

JNum(x) == [t |-> "number", v |-> x]

JObj(f) == [t |-> "object", v |-> f]

JBigNumber == [t |-> "bignumber"]

Malformed == [t |-> "malformed"]

\* #[derive(Serialize)] for PricingConfig
SerializePricing(pr) == JObj([g \in PricingKeys |-> JNum(pr[g])])

\* Mutant of Serialize: fields holding 0 are left out of the document.
SerializeSkipZero(st) ==
    LET kept == {k \in SettingsKeys : k \in NumberKeys => st[k] # 0}
    IN  JObj([k \in kept |->
               IF k \in StringKeys THEN JStr(st[k])
               ELSE IF k \in BoolKeys THEN JBool(st[k])
               ELSE IF k \in NumberKeys THEN JNum(st[k])
               ELSE SerializePricing(st[k])])

\* #[derive(Serialize)] for NodeSettings with serde_json::to_string_pretty:
\* every field is written.
Serialize(st) ==
    JObj([k \in SettingsKeys |->
           IF k \in StringKeys THEN JStr(st[k])
           ELSE IF k \in BoolKeys THEN JBool(st[k])
           ELSE IF k \in NumberKeys THEN JNum(st[k])
           ELSE SerializePricing(st[k])])

\* A JSON value that deserializes to u32.
IsU32(j) == j.t = "number" /\ j.v >= 0

\* #[derive(Deserialize)] for PricingConfig: <<record>> or <<>> on error.
DeserializePricing(j) ==
    IF j.t # "object" THEN <<>>
    ELSE IF ~(PricingKeys \subseteq DOMAIN j.v) THEN <<>>
    ELSE IF \E g \in PricingKeys : ~IsU32(j.v[g]) THEN <<>>
    ELSE <<[g \in PricingKeys |-> j.v[g].v]>>

\* Mutant of Deserialize: a missing field takes its default value, as with
\* #[serde(default)].
DeserializeWithDefaults(j) ==
    IF j.t # "object" THEN <<>>
    ELSE LET o == j.v
             has == SettingsKeys \cap DOMAIN o
         IN  IF \/ \E k \in StringKeys \cap has : o[k].t # "string"
                \/ \E k \in BoolKeys \cap has : o[k].t # "bool"
                \/ \E k \in NumberKeys \cap has : ~IsU32(o[k])
                \/ "pricing" \in has /\ DeserializePricing(o["pricing"]) = <<>>
             THEN <<>>
             ELSE <<[k \in SettingsKeys |->
                      IF k \notin has THEN DefaultSettings[k]
                      ELSE IF k = "pricing" THEN DeserializePricing(o[k])[1]
                      ELSE o[k].v]>>

\* #[derive(Deserialize)] for NodeSettings with serde_json::from_str: every
\* field must be present with its type, unknown fields are ignored.
\* <<record>> or <<>> on error.
Deserialize(j) ==
    IF j.t # "object" THEN <<>>
    ELSE LET o == j.v
         IN  IF ~(SettingsKeys \subseteq DOMAIN o) THEN <<>>
             ELSE IF \/ \E k \in StringKeys : o[k].t # "string"
                     \/ \E k \in BoolKeys : o[k].t # "bool"
                     \/ \E k \in NumberKeys : ~IsU32(o[k])
                     \/ DeserializePricing(o["pricing"]) = <<>>
             THEN <<>>
             ELSE <<[k \in SettingsKeys |->
                      IF k = "pricing" THEN DeserializePricing(o[k])[1]
                      ELSE o[k].v]>>

\* A request or a file holding the orchestrator_url field alone.
UrlOnly(u) == JObj([orchestrator_url |-> JStr(u)])

UrlOnlyDocuments == {UrlOnly(u) : u \in {"http://x:9"}}

\* The fields of a complete settings document that another program wrote.
ForeignFields ==
    [orchestrator_url |-> JStr("http://x:9"),
     auto_start |-> JBool(TRUE),
     start_minimized |-> JBool(TRUE),
     wallet_address |-> JStr("0xabc"),
     max_concurrent_jobs |-> JNum(0),
     max_memory_percent |-> JNum(100),
     pricing |-> JObj([gpu_hour_cents |-> JNum(0),
                       cpu_core_hour_cents |-> JNum(0),
                       memory_gb_hour_cents |-> JNum(0),
                       minimum_cents |-> JNum(0)])]

\* Complete documents that are not a NodeSettings: a field of the wrong
\* type, a negative number, a number beyond u32.
BadFieldDocuments ==
    {JObj([ForeignFields EXCEPT !["auto_start"] = JStr("yes")]),
     JObj([ForeignFields EXCEPT !["max_concurrent_jobs"] = JNum(-1)]),
     JObj([ForeignFields EXCEPT !["max_memory_percent"] = JBigNumber])}

\* Documents lacking one field of NodeSettings or of PricingConfig.
LackingDocuments ==
    {JObj([k \in SettingsKeys \ {"wallet_address"} |-> ForeignFields[k]]),
     JObj([ForeignFields EXCEPT !["pricing"] =
            JObj([g \in PricingKeys \ {"minimum_cents"} |-> JNum(0)])])}

\* The JSON object the front end sends as the `settings` argument for the
\* settings value st.
RequestOf(st) ==
    JObj([orchestrator_url |-> JStr(st.orchestrator_url),
          auto_start |-> JBool(st.auto_start),
          start_minimized |-> JBool(st.start_minimized),
          wallet_address |-> JStr(st.wallet_address),
          max_concurrent_jobs |-> JNum(st.max_concurrent_jobs),
          max_memory_percent |-> JNum(st.max_memory_percent),
          pricing |-> JObj([g \in PricingKeys |-> JNum(st.pricing[g])])])

\* The `settings` argument of the save_settings requests the model sends.
Requests ==
    {RequestOf(st) : st \in SettingsSamples} \cup UrlOnlyDocuments

\* What something other than the launcher may leave in settings.json.
ForeignContents ==
    {Malformed, JNum(0), JObj(ForeignFields)}
        \cup UrlOnlyDocuments \cup BadFieldDocuments \cup LackingDocuments

NoRequest == [t |-> "none"]

OkUnit == [kind |-> "ok"]

SettingsValue(st) == [kind |-> "settings", value |-> st]

InvalidArgs == "invalid args for command save_settings"

ConfigDirUnavailable == "Could not determine config directory"

CreateDirFailed == "Failed to create config directory"

SerializeFailed == "Failed to serialize settings"

WriteFailed == "Failed to write settings"

\* load_settings(): Option<NodeSettings> as <<record>> or <<>>.
LoadSettings ==
    IF ~configDir THEN <<>>
    ELSE IF file = <<>> \/ ~readable THEN <<>>
    ELSE Deserialize(file[1])

\* Option::unwrap_or_default
UnwrapOrDefault(o) == IF IsSome(o) THEN o[1] ELSE DefaultSettings

\* Mutant of PartialWrite: the file is written over in place, not
\* truncated, so the fields not yet written are those of the old document.
PartialWriteInPlace(old, new) ==
    IF old # <<>> /\ old[1].t = "object" /\ DOMAIN old[1].v = DOMAIN new.v
      THEN JObj([k \in DOMAIN new.v |->
                   IF k \in StringKeys THEN new.v[k] ELSE old[1].v[k]])
      ELSE Malformed

\* What std::fs::write leaves when it stops part-way: File::create has
\* truncated the old file (old, <<>> when absent) and a proper prefix of the
\* text of the document new was written, which is no JSON document.
PartialWrite(old, new) == Malformed

\* The front end invokes get_settings.
GetSettingsCall ==
    /\ spc = "idle"
    /\ spc' = "get"
    /\ settingsResult' = NoResult
    /\ UNCHANGED <<configDir, fsOk, dirExists, file, readable, request,
                   lastSaved, intact, replaced, stale, offered>>
    /\ UNCHANGED nodeVars

\* get_settings(): load_settings().unwrap_or_default()
GetSettings ==
    /\ spc = "get"
    /\ spc' = "idle"
    /\ settingsResult' = SettingsValue(UnwrapOrDefault(LoadSettings))
    /\ stale' = FALSE
    /\ UNCHANGED <<configDir, fsOk, dirExists, file, readable, request,
                   lastSaved, intact, replaced, offered>>
    /\ UNCHANGED nodeVars

\* The front end invokes save_settings with a `settings` argument.
SaveSettingsCall(req) ==
    /\ spc = "idle"
    /\ spc' = "save"
    /\ request' = req
    /\ settingsResult' = NoResult
    /\ UNCHANGED <<configDir, fsOk, dirExists, file, readable, lastSaved,
                   intact, replaced, stale, offered>>
    /\ UNCHANGED nodeVars

\* The command returns r and has left the file system as it was.
SaveFails(r) ==
    /\ settingsResult' = r
    /\ UNCHANGED <<dirExists, file, readable, lastSaved, intact, replaced>>

\* save_settings(settings): the argument is deserialized into NodeSettings
\* by the command handler, then the body runs.
SaveSettings ==
    /\ spc = "save"
    /\ spc' = "idle"
    /\ request' = NoRequest
    /\ stale' = FALSE
    /\ offered' = offered \cup {st \in SettingsSamples :
                                   <<st>> = Deserialize(request)}
    /\ LET settings == Deserialize(request)
       IN  IF settings = <<>> THEN SaveFails(Err(InvalidArgs))
           ELSE IF ~configDir THEN SaveFails(Err(ConfigDirUnavailable))
           ELSE IF ~dirExists /\ ~fsOk THEN SaveFails(Err(CreateDirFailed))
           ELSE IF fsOk /\ (file = <<>> \/ readable)
             THEN \* std::fs::write succeeds: the file holds the new text
                  /\ dirExists' = TRUE
                  /\ file' = <<Serialize(settings[1])>>
                  /\ readable' = TRUE
                  /\ settingsResult' = OkUnit
                  /\ lastSaved' = settings
                  /\ intact' = TRUE
                  /\ replaced' = (IsSome(LoadSettings) /\ LoadSettings # settings)
             ELSE \* std::fs::write fails: before, or after truncating the file
                  /\ dirExists' = TRUE
                  /\ settingsResult' = Err(WriteFailed)
                  /\ \/ file' = file
                     \/ /\ file # <<>> /\ readable
                        /\ file' = <<PartialWrite(file,
                                                  Serialize(settings[1]))>>
                  /\ intact' = (intact /\ file' = file)
                  /\ UNCHANGED <<readable, lastSaved, replaced>>
    /\ UNCHANGED <<configDir, fsOk>>
    /\ UNCHANGED nodeVars

\* The launcher is killed while save_settings is part-way through
\* std::fs::write; it is started again later.
SaveInterrupted ==
    /\ spc = "save"
    /\ configDir
    /\ dirExists \/ fsOk
    /\ file = <<>> \/ readable
    /\ LET settings == Deserialize(request)
       IN  /\ settings # <<>>
           /\ file' = <<PartialWrite(file, Serialize(settings[1]))>>
           /\ offered' = offered \cup {settings[1]}
    /\ dirExists' = TRUE
    /\ spc' = "idle"
    /\ request' = NoRequest
    /\ settingsResult' = NoResult
    /\ intact' = FALSE
    /\ stale' = TRUE
    /\ UNCHANGED <<configDir, fsOk, readable, lastSaved, replaced>>
    /\ UNCHANGED nodeVars

\* Something other than the launcher writes settings.json.
ForeignWrite(content) ==
    /\ configDir
    /\ file # <<content>>
    /\ file' = <<content>>
    /\ dirExists' = TRUE
    /\ readable' = TRUE
    /\ intact' = FALSE
    /\ stale' = TRUE
    /\ UNCHANGED <<configDir, fsOk, spc, request, settingsResult, lastSaved, replaced, offered>>
    /\ UNCHANGED nodeVars

\* Something other than the launcher removes settings.json.
ForeignRemove ==
    /\ file # <<>>
    /\ file' = <<>>
    /\ readable' = TRUE
    /\ intact' = FALSE
    /\ stale' = TRUE
    /\ UNCHANGED <<configDir, fsOk, dirExists, spc, request, settingsResult,
                   lastSaved, replaced, offered>>
    /\ UNCHANGED nodeVars

\* The permissions of settings.json are taken away or given back.
ForeignChmod ==
    /\ file # <<>>
    /\ readable' = ~readable
    /\ intact' = FALSE
    /\ stale' = TRUE
    /\ UNCHANGED <<configDir, fsOk, dirExists, file, spc, request,
                   settingsResult, lastSaved, replaced, offered>>
    /\ UNCHANGED nodeVars

\* The file system starts or stops refusing writes (full, read-only).
FileSystemFault ==
    /\ fsOk' = ~fsOk
    /\ stale' = TRUE
    /\ UNCHANGED <<configDir, dirExists, file, readable, spc, request,
                   settingsResult, lastSaved, intact, replaced, offered>>
    /\ UNCHANGED nodeVars

\* ------------------------------------------------------- specification

\* main(): .manage(NodeProcess(Mutex::new(None)))
InitNode ==
    /\ slot = <<>>
    /\ lock = 0
    /\ procs = <<>>
    /\ pc = [c \in Callers |-> "idle"]
    /\ child = [c \in Callers |-> <<>>]
    /\ arg = [c \in Callers |-> NoUrl]
    /\ path = [c \in Callers |-> NoPath]
    /\ probe = [c \in Callers |-> NoProbe]
    /\ result = [c \in Callers |-> NoResult]
    /\ lastCall = [c \in Callers |-> "none"]
    /\ lastSuccess = "none"
    /\ killCalls = {}
    /\ reapedBy = {}
    /\ statusFresh = FALSE

\* A fresh environment: no configuration directory, no settings file.
InitStore ==
    /\ fsOk = TRUE
    /\ dirExists = FALSE
    /\ file = <<>>
    /\ readable = TRUE
    /\ spc = "idle"
    /\ request = NoRequest
    /\ settingsResult = NoResult
    /\ lastSaved = <<>>
    /\ intact = FALSE
    /\ replaced = FALSE
    /\ stale = FALSE
    /\ offered = {}

Init == InitNode /\ InitStore /\ configDir = TRUE

Next ==
    \/ \E c \in Callers : Invoke(c, "status", NoUrl)
    \/ \E c \in Callers, url \in Urls : Invoke(c, "start", url)
    \/ \E c \in Callers : Invoke(c, "stop", NoUrl)
    \/ \E c \in Callers : GetNodeStatusLock(c)
    \/ \E c \in Callers : GetNodeStatusRead(c)
    \/ \E c \in Callers : StartNodeLock(c)
    \/ \E c \in Callers : StartNodeCheck(c)
    \/ \E c \in Callers : StartNodeLocate(c)
    \/ \E c \in Callers : StartNodeSpawn(c)
    \/ \E c \in Callers : StartNodeStore(c)
    \/ \E c \in Callers : StopNodeLock(c)
    \/ \E c \in Callers : StopNodeTake(c)
    \/ \E c \in Callers : StopNodeKill(c)
    \/ \E c \in Callers : StopNodeWait(c)
    \/ \E c \in Callers : StopNodeReturn(c)
    \/ \E pid \in DOMAIN procs : ChildExit(pid)

Spec == Init /\ [][Next]_vars

\* Every caller has issued start_node from the Stopped state and no other
\* command is issued afterwards: the concurrent starts of claim C5.
InitStarts ==
    /\ slot = <<>>
    /\ lock = 0
    /\ procs = <<>>
    /\ pc = [c \in Callers |-> "start_lock"]
    /\ child = [c \in Callers |-> <<>>]
    /\ arg \in [Callers -> Urls]
    /\ path = [c \in Callers |-> NoPath]
    /\ probe = [c \in Callers |-> NoProbe]
    /\ result = [c \in Callers |-> NoResult]
    /\ lastCall = [c \in Callers |-> "start"]
    /\ lastSuccess = "none"
    /\ killCalls = {}
    /\ reapedBy = {}
    /\ statusFresh = FALSE
    /\ InitStore
    /\ configDir = TRUE

NextStarts ==
    \/ \E c \in Callers : StartNodeLock(c)
    \/ \E c \in Callers : StartNodeCheck(c)
    \/ \E c \in Callers : StartNodeLocate(c)
    \/ \E c \in Callers : StartNodeSpawn(c)
    \/ \E c \in Callers : StartNodeStore(c)
    \/ \E pid \in DOMAIN procs : ChildExit(pid)

SpecStarts == InitStarts /\ [][NextStarts]_vars

\* A step of caller c that waits for the mutex.
Acquire(c) == GetNodeStatusLock(c) \/ StartNodeLock(c) \/ StopNodeLock(c)

\* A step of caller c's command with the mutex held.
Proceed(c) ==
    \/ GetNodeStatusRead(c)
    \/ StartNodeCheck(c)
    \/ StartNodeLocate(c)
    \/ StartNodeSpawn(c)
    \/ StartNodeStore(c)
    \/ StopNodeTake(c)
    \/ StopNodeKill(c)
    \/ StopNodeWait(c)
    \/ StopNodeReturn(c)

\* A process that was sent the kill signal exits.
KilledExit(pid) ==
    /\ pid \in DOMAIN procs
    /\ procs[pid] = "killed"
    /\ ChildExit(pid)

\* The supervisor under fair scheduling: a command that can take a step
\* takes it (spawn, kill and wait return), a caller waiting for the mutex
\* gets it if it is free again and again, and a killed process exits.
\* Nothing obliges the front end to invoke a command or a running child to
\* exit.
Fairness ==
    /\ \A c \in Callers : WF_vars(Proceed(c)) /\ SF_vars(Acquire(c))
    /\ \A pid \in 1..MaxSpawns : WF_vars(KilledExit(pid))

SpecFair == Init /\ [][Next]_vars /\ Fairness

\* The settings commands alone, in an environment where the configuration
\* directory can or cannot be determined.
InitSettings == InitNode /\ InitStore /\ configDir \in BOOLEAN

NextSettings ==
    \/ GetSettingsCall
    \/ GetSettings
    \/ \E req \in Requests : SaveSettingsCall(req)
    \/ SaveSettings
    \/ \E content \in ForeignContents : ForeignWrite(content)
    \/ ForeignRemove
    \/ ForeignChmod
    \/ FileSystemFault
    \/ SaveInterrupted

SpecSettings == InitSettings /\ [][NextSettings]_vars

\* The settings commands where nothing but the launcher writes the file.
NextSaves ==
    \/ GetSettingsCall
    \/ GetSettings
    \/ \E req \in Requests : SaveSettingsCall(req)
    \/ SaveSettings
    \/ SaveInterrupted
    \/ ForeignRemove
    \/ ForeignChmod
    \/ FileSystemFault

SpecSaves == InitSettings /\ [][NextSaves]_vars

\* ------------------------------------------------------------- claims

\* All calls issued so far have returned.
Quiescent == \A c \in Callers : pc[c] = "idle"

Returned(c, cmd) == pc[c] = "idle" /\ lastCall[c] = cmd

\* C1: in every reachable state at most one child spawned by the
\* supervisor is alive and the slot holds at most one handle.
C1_AtMostOneLiveChild ==
    /\ Cardinality(Alive) <= 1
    /\ Len(slot) <= 1

\* C2: once every call has returned, the supervisor is Running (the slot
\* holds a handle) iff the most recent call that returned success was a
\* start_node.
C2_RunningIffLastSuccessIsStart ==
    Quiescent => (IsSome(slot) <=> lastSuccess = "start")

\* C3: start_node reaching its check while the slot holds a handle returns
\* the error "Node is already running", spawns no process and leaves the
\* slot holding the same handle with the same pid.
C3_StartWhileRunningRejected ==
    [][\A c \in Callers :
         (pc[c] = "start_check" /\ IsSome(slot) /\ pc'[c] # pc[c]) =>
            /\ pc'[c] = "idle"
            /\ result'[c] = Err(AlreadyRunning)
            /\ slot' = slot
            /\ procs' = procs
            /\ lock' = 0]_vars

C3_Witness ==
    \E c \in Callers :
        /\ Returned(c, "start")
        /\ result[c] = Err(AlreadyRunning)
        /\ IsSome(slot)
        /\ slot[1] \in Alive

\* C4: stop_node reaching an empty slot returns Ok {running:false,
\* pid:None}, calls kill on nothing and leaves the slot empty and every
\* process as it was; every stop_node leaves the slot empty when it returns,
\* so a stop after a stop is this no-op.
C4_StopWhileStoppedIsNoOp ==
    /\ [][\A c \in Callers :
            (pc[c] = "stop_take" /\ slot = <<>> /\ pc'[c] # pc[c]) =>
               /\ pc'[c] = "stop_ret"
               /\ slot' = <<>>
               /\ child'[c] = <<>>
               /\ killCalls' = killCalls
               /\ procs' = procs]_vars
    /\ [][\A c \in Callers :
            (pc[c] = "stop_ret" /\ pc'[c] # pc[c]) =>
               /\ pc'[c] = "idle"
               /\ result'[c] = Ok(NodeStatus(FALSE, <<>>))
               /\ slot' = <<>>
               /\ killCalls' = killCalls
               /\ procs' = procs]_vars
    /\ [][\A c \in Callers :
            (lastCall[c] = "stop" /\ pc[c] # "idle" /\ pc'[c] = "idle") =>
               slot' = <<>>]_vars

C4_Witness ==
    \E c \in Callers :
        /\ Returned(c, "stop")
        /\ result[c] = Ok(NodeStatus(FALSE, <<>>))
        /\ procs = <<>>
        /\ killCalls = {}
        /\ slot = <<>>

\* The callers whose start_node returned success.
Successes == {c \in Callers : result[c].kind = "ok"}

\* C5 (as stated): when concurrent start_node calls issued from Stopped have
\* all returned, at most one returned success and exactly one child was
\* spawned.
C5_ExactlyOneSpawned ==
    Quiescent => (Cardinality(Successes) <= 1 /\ Len(procs) = 1)

\* C5 (amended): of concurrent start_node calls issued from Stopped at most
\* one returns success and at most one child is spawned: exactly one unless
\* every call failed at spawn; once one call has succeeded every other call
\* returns the AlreadyRunning error.
C5_AtMostOneStartSucceeds ==
    /\ [](Cardinality(Successes) <= 1 /\ Len(procs) <= 1)
    /\ [](Quiescent => Len(procs) = Cardinality(Successes))
    /\ [](Quiescent =>
            (Len(procs) = 0 <=> \A c \in Callers : result[c] = Err(SpawnFailed)))
    /\ [][\A d \in Callers :
            (pc[d] = "start_check" /\ Successes # {} /\ pc'[d] # pc[d]) =>
               result'[d] = Err(AlreadyRunning)]_vars

C5_Witness ==
    /\ Quiescent
    /\ \E c, d \in Callers :
          /\ result[c] = Ok(NodeStatus(TRUE, <<1>>))
          /\ result[d] = Err(AlreadyRunning)

\* C6: a stop_node call that returns an error leaves the slot holding the
\* handle it held before the call.
C6_FailedStopKeepsSlot ==
    [][\A c \in Callers :
         (pc[c] = "stop_kill" /\ pc'[c] = "idle" /\ result'[c] = Err(StopFailed)) =>
            slot' = child[c]]_vars

\* C7: a start_node call that returns an error other than AlreadyRunning
\* leaves the slot empty and no child alive.
C7_FailedStartLeavesStopped ==
    [][\A c \in Callers :
         (pc[c] \in {"start_locate", "start_spawn"} /\ pc'[c] = "idle") =>
            /\ result'[c].kind = "err"
            /\ slot' = <<>>
            /\ Alive' = {}]_vars

\* A settings command returns in this step.
SettingsReturns(cmd) ==
    spc = cmd /\ spc' = "idle" /\ settingsResult' # NoResult

\* C8: while the file is as the most recent successful save_settings left
\* it, get_settings returns a record equal in every field to the argument
\* of that save, whatever was saved before and also for the values 0.
C8_SaveThenGetRoundTrip ==
    /\ [](intact => IsSome(lastSaved))
    /\ [][(SettingsReturns("get") /\ intact) =>
            /\ settingsResult' = SettingsValue(lastSaved[1])
            /\ \A k \in SettingsKeys : settingsResult'.value[k] = lastSaved[1][k]]_vars

C8_Witness ==
    /\ spc = "idle"
    /\ intact /\ replaced /\ ~stale
    /\ lastSaved = <<BoundarySettings>>
    /\ settingsResult = SettingsValue(BoundarySettings)
    /\ settingsResult.value.max_concurrent_jobs = 0
    /\ settingsResult.value.pricing.minimum_cents = 0

\* The object j lacks a field of NodeSettings or of its PricingConfig.
LacksField(j) ==
    /\ j.t = "object"
    /\ \/ \E k \in SettingsKeys : k \notin DOMAIN j.v
       \/ /\ j.v["pricing"].t = "object"
          /\ \E g \in PricingKeys : g \notin DOMAIN j.v["pricing"].v

\* The settings file cannot be used: no configuration directory, no file,
\* no permission, no JSON document, or a document lacking a field.
Unusable ==
    \/ ~configDir
    \/ file = <<>>
    \/ ~readable
    \/ file[1] = Malformed
    \/ LacksField(file[1])

\* C9: get_settings always returns a record, never an error, and when the
\* settings file cannot be used it returns exactly the default record, with
\* no field taken from the file.
C9_GetSettingsFallsBackToDefault ==
    /\ [][SettingsReturns("get") => settingsResult'.kind = "settings"]_vars
    /\ [][(SettingsReturns("get") /\ Unusable) =>
            settingsResult' = SettingsValue(DefaultSettings)]_vars

C9_Witness ==
    /\ spc = "idle"
    /\ ~stale
    /\ settingsResult = SettingsValue(DefaultSettings)
    /\ file # <<>> /\ readable
    /\ LacksField(file[1])
    /\ file[1].v["orchestrator_url"] # JStr(DefaultSettings.orchestrator_url)

\* C10: with no settings file, a directory that can be determined and a
\* file system that accepts writes, a save_settings request supplying only
\* orchestrator_url returns Ok and leaves a file from which get_settings
\* returns that orchestrator_url with every other field at its default.
C10_UrlOnlySaveSucceeds ==
    [][(SettingsReturns("save") /\ request \in UrlOnlyDocuments
          /\ configDir /\ fsOk /\ file = <<>>) =>
            /\ settingsResult' = OkUnit
            /\ UnwrapOrDefault(LoadSettings)' =
                 [DefaultSettings EXCEPT
                    !.orchestrator_url = request.v["orchestrator_url"].v]]_vars

\* ------------------------------------------------------------ the locator

\* The callers whose start_node has located a binary and not yet spawned it.
Located == {c \in Callers : pc[c] = "start_spawn"}

\* C11 as stated: in each of the four combinations of (launcher path
\* resolvable, adjacent binary exists) the locator yields the adjacent path
\* when the adjacent file exists and the fixed relative path otherwise.
C11_AdjacentWheneverFileExists ==
    \A c \in Located :
        path[c] = IF probe[c].adjacent THEN <<AdjacentPath>>
                                       ELSE <<DevelopmentPath>>

\* C11: in each of the four combinations the locator yields the adjacent
\* path when the launcher's path is resolvable and the adjacent file exists,
\* and the fixed relative path otherwise; the path depends on nothing else.
C11_LocatorPath ==
    \A c \in Located :
        path[c] = IF probe[c].exe /\ probe[c].adjacent
                    THEN <<AdjacentPath>>
                    ELSE <<DevelopmentPath>>

C11_Witness ==
    \E c \in Located :
        /\ probe[c] = Probe(TRUE, TRUE)
        /\ path[c] = <<AdjacentPath>>

\* C12 as stated: start_node fails with BinaryNotFound, without falling back
\* and without spawning, when the launcher's path cannot be determined, and
\* never fails with BinaryNotFound otherwise.
C12_BinaryNotFoundWhenNoExe ==
    \A c \in Callers :
        /\ c \in Located => probe[c].exe
        /\ result[c] = Err(BinaryNotFound) => ~probe[c].exe

\* C12: start_node never fails with BinaryNotFound; when the launcher's path
\* cannot be determined the locator falls back to the fixed relative path
\* and the call goes on to spawn it.
C12_NeverBinaryNotFound ==
    [][\A c \in Callers :
         /\ result'[c] # Err(BinaryNotFound)
         /\ (pc[c] = "start_locate" /\ pc'[c] # "start_locate") =>
               /\ pc'[c] = "start_spawn"
               /\ ~probe'[c].exe => path'[c] = <<DevelopmentPath>>]_vars

C12_Witness ==
    \E c \in Located :
        /\ ~probe[c].exe
        /\ path[c] = <<DevelopmentPath>>

\* ------------------------------------------------------- get_node_status

\* Caller c takes a step of the command cmd.
StepOf(c, cmd) ==
    /\ pc[c] # "idle"
    /\ lastCall[c] = cmd
    /\ pc'[c] # pc[c]

\* C13: no step of get_node_status changes the slot, signals a process,
\* reaps a process or spawns one.
C13_StatusLeavesSupervisorAlone ==
    [][\A c \in Callers :
         StepOf(c, "status") =>
            /\ slot' = slot
            /\ procs' = procs
            /\ killCalls' = killCalls
            /\ reapedBy' = reapedBy]_vars

C13_Witness ==
    /\ statusFresh
    /\ IsSome(slot)
    /\ procs[slot[1]] = "alive"
    /\ slot[1] \notin killCalls
    /\ \E c \in Callers :
          Returned(c, "status") /\ result[c] = NodeStatus(TRUE, slot)

\* C14: every status get_node_status returns has running = TRUE exactly
\* when the slot holds a handle and a pid exactly when running; a successful
\* start_node returns the pid of the handle it stored, and since a held
\* handle is never replaced but only cleared, every get_node_status until
\* the slot is next cleared returns that same pid.
C14_StatusMatchesSlot ==
    /\ [][\A c \in Callers :
            (pc[c] = "status_read" /\ pc'[c] = "idle") =>
               /\ result'[c].running = (slot # <<>>)
               /\ (result'[c].pid # <<>>) = result'[c].running
               /\ slot # <<>> => result'[c].pid = slot]_vars
    /\ [][\A c \in Callers :
            (pc[c] = "start_store" /\ pc'[c] = "idle") =>
               /\ slot' # <<>>
               /\ slot' = child[c]
               /\ result'[c] = Ok(NodeStatus(TRUE, slot'))]_vars
    /\ [][slot # <<>> => slot' \in {slot, <<>>}]_vars

C14_Witness ==
    /\ statusFresh
    /\ slot = <<2>>
    /\ \E c, d \in Callers :
          /\ Returned(c, "start") /\ result[c] = Ok(NodeStatus(TRUE, <<2>>))
          /\ Returned(d, "status") /\ result[d] = NodeStatus(TRUE, <<2>>)

\* --------------------------------------------------------------- stop_node

\* The children whose handle has been put in the slot at some time: every
\* child spawned, but one a start_node has yet to store.
Stored ==
    {p \in DOMAIN procs :
        \A c \in Callers : ~(pc[c] = "start_store" /\ child[c] = <<p>>)}

\* The child whose handle was put in the slot last.
LastStored == CHOOSE p \in Stored : \A q \in Stored : q <= p

\* C15: the slot is emptied by a stop only after the child in it was sent
\* the kill signal and then waited for: in every state where the slot is
\* empty because of a stop, that child has been signalled and reaped and is
\* not alive.
C15_SlotEmptiedOnlyAfterReap ==
    (slot = <<>> /\ Stored # {}) =>
        /\ LastStored \in killCalls
        /\ LastStored \in reapedBy
        /\ LastStored \notin Alive

\* C16: when the kill signal fails during stop_node the call returns the
\* StopFailed error and leaves the slot empty; the slot stays empty until a
\* start_node stores a handle, and get_node_status on an empty slot returns
\* running = FALSE with no pid, so the next get_node_status returns that.
C16_FailedKillReportsStopped ==
    /\ [][\A c \in Callers :
            (pc[c] = "stop_kill" /\ pc'[c] = "idle") =>
               /\ result'[c] = Err(StopFailed)
               /\ slot' = <<>>]_vars
    /\ [][(slot = <<>> /\ slot' # <<>>) =>
            \E c \in Callers : pc[c] = "start_store" /\ pc'[c] = "idle"]_vars
    /\ [][\A c \in Callers :
            (pc[c] = "status_read" /\ pc'[c] = "idle" /\ slot = <<>>) =>
               result'[c] = NodeStatus(FALSE, <<>>)]_vars

C16_Witness ==
    /\ statusFresh
    /\ slot = <<>>
    /\ procs = <<"alive">>
    /\ killCalls = {1}
    /\ \E c, d \in Callers :
          /\ Returned(c, "stop") /\ result[c] = Err(StopFailed)
          /\ Returned(d, "status") /\ result[d] = NodeStatus(FALSE, <<>>)

\* ---------------------------------------------- a child exiting by itself

\* C17: when the child in the slot exits on its own the slot is unchanged;
\* get_node_status on a slot holding a dead child still returns running =
\* TRUE with that child's pid; the slot changes only in a step of an
\* explicit stop_node or start_node.
C17_ExitIsNotNoticed ==
    /\ [][\A p \in DOMAIN procs :
            (slot = <<p>> /\ procs[p] = "alive" /\ procs'[p] = "exited") =>
               slot' = slot]_vars
    /\ [][\A c \in Callers :
            (pc[c] = "status_read" /\ pc'[c] = "idle" /\ slot # <<>>
               /\ procs[slot[1]] = "exited") =>
                  result'[c] = NodeStatus(TRUE, slot)]_vars
    /\ [][slot' # slot =>
            \E c \in Callers : StepOf(c, "stop") \/ StepOf(c, "start")]_vars

C17_Witness ==
    /\ statusFresh
    /\ slot = <<1>>
    /\ procs[1] = "exited"
    /\ \E c \in Callers :
          Returned(c, "status") /\ result[c] = NodeStatus(TRUE, <<1>>)

\* ------------------------------------------------------ mutual exclusion

\* Caller c is inside a command: past the lock and not yet returned.
InCommand(c) ==
    pc[c] \notin {"idle", "status_lock", "start_lock", "stop_lock"}

\* C18: from taking the lock to returning, a command holds the mutex
\* (through spawn, kill and wait) and no other call is inside a command, so
\* no other call reads or writes the slot meanwhile; a result is produced
\* only by the holder of the mutex, in the step that releases it, so the
\* results are those of the commands run one after another in the order in
\* which they took the lock.
C18_MutualExclusion ==
    /\ [](\A c \in Callers :
            InCommand(c) =>
               /\ lock = c
               /\ \A d \in Callers \ {c} : ~InCommand(d))
    /\ [][\A c \in Callers :
            (result'[c] # result[c] /\ pc[c] # "idle") =>
               /\ lock = c
               /\ lock' = 0
               /\ pc'[c] = "idle"]_vars
    /\ [][(slot' # slot \/ procs' # procs) =>
            \/ \E c \in Callers : lock = c /\ pc'[c] # pc[c]
            \/ \E p \in DOMAIN procs :
                  procs[p] # "exited" /\ procs'[p] = "exited"]_vars

C18_Witness ==
    \E c, d \in Callers :
        /\ pc[c] = "stop_wait"
        /\ lock = c
        /\ procs[child[c][1]] = "killed"
        /\ pc[d] = "start_lock"

\* ------------------------------------------------------- interrupted saves

\* C19: whatever saves succeeded, failed at the directory or at the write,
\* or were interrupted part-way through the write, get_settings returns the
\* default record or one whole record that was passed to some save, never a
\* mix of fields of different records.
C19_DefaultOrWholeSavedRecord ==
    [][SettingsReturns("get") =>
         /\ settingsResult'.kind = "settings"
         /\ settingsResult'.value \in {DefaultSettings} \cup offered]_vars

C19_Witness ==
    /\ spc = "idle"
    /\ ~stale
    /\ lastSaved = <<BoundarySettings>>
    /\ file = <<Malformed>>
    /\ readable
    /\ settingsResult = SettingsValue(DefaultSettings)
    /\ Cardinality(offered) >= 2

\* ------------------------------------------------------------ termination

====
